---- MODULE Spec2Model ----
(***************************************************************************)
(* Model of src/user_service.py: a Tornado application with one SQLite     *)
(* table `users` and four request handlers (GET /users, POST /users,       *)
(* GET /users/{id}, GET /users/ping).                                      *)
(*                                                                         *)
(* Strings are sequences of one-character strings, so that strip(), int()  *)
(* and the name regular expression are computed character by character.    *)
(* A request argument is the list of values the request carries for it     *)
(* (the empty list when the argument is absent).                           *)
(***************************************************************************)
EXTENDS Integers, Sequences, FiniteSets, TLC

VARIABLES users, sqlite_sequence, tie_order, request, response, executed,
          posted, remembered, probe

vars == <<users, sqlite_sequence, tie_order, request, response, executed,
          posted, remembered, probe>>

(***************************************************************************)
(* Bounds of the model.                                                    *)
(***************************************************************************)
\* rows the table may hold
MaxUsers == 2
\* length of the strings handed to _validate_name when it is checked alone
MaxNameLen == 3

(***************************************************************************)
(* Program constants.                                                      *)
(***************************************************************************)
DEFAULT_PAGE_NUM == 1
DEFAULT_PAGE_SIZE == 10

\* Python's None, kept apart from every string of characters
None == <<"None">>

(***************************************************************************)
(* Characters.                                                             *)
(***************************************************************************)
Lower == {"a","b","c","d","e","f","g","h","i","j","k","l","m",
          "n","o","p","q","r","s","t","u","v","w","x","y","z"}
Upper == {"A","B","C","D","E","F","G","H","I","J","K","L","M",
          "N","O","P","Q","R","S","T","U","V","W","X","Y","Z"}
DigitChars == {"0","1","2","3","4","5","6","7","8","9"}
Whitespace == {" ", "\t", "\n", "\r", "\f"}

DigitVal(c) ==
    CASE c = "0" -> 0 [] c = "1" -> 1 [] c = "2" -> 2 [] c = "3" -> 3
      [] c = "4" -> 4 [] c = "5" -> 5 [] c = "6" -> 6 [] c = "7" -> 7
      [] c = "8" -> 8 [] c = "9" -> 9

(***************************************************************************)
(* str.strip(): leading and trailing whitespace removed.                   *)
(***************************************************************************)
RECURSIVE lstrip(_)
lstrip(s) ==
    IF s # <<>> /\ Head(s) \in Whitespace THEN lstrip(Tail(s)) ELSE s

RECURSIVE rstrip(_)
rstrip(s) ==
    IF s # <<>> /\ s[Len(s)] \in Whitespace
    THEN rstrip(SubSeq(s, 1, Len(s) - 1))
    ELSE s

strip(s) == rstrip(lstrip(s))

(***************************************************************************)
(* RequestHandler.get_argument(name) on a present argument: the last of    *)
(* the values given, its control characters (\x00-\x08, \x0e-\x1f; one of  *)
(* them is written "\\x01" here) replaced by spaces, then stripped          *)
(* (strip=True is the default of the call).                                *)
(***************************************************************************)
ControlChars == {"\\x01"}

remove_control_chars(s) ==
    [i \in 1..Len(s) |-> IF s[i] \in ControlChars THEN " " ELSE s[i]]

get_argument(values) == strip(remove_control_chars(values[Len(values)]))

(***************************************************************************)
(* int(x) of a string: surrounding whitespace, an optional sign, decimal   *)
(* digits with single underscores allowed between digits.  The result is   *)
(* [ok |-> FALSE] where Python raises ValueError.                          *)
(***************************************************************************)
int_literal_ok(d) ==
    /\ d # <<>>
    /\ d[1] \in DigitChars
    /\ d[Len(d)] \in DigitChars
    /\ \A i \in 1..Len(d) : d[i] \in DigitChars \cup {"_"}
    /\ \A i \in 1..(Len(d) - 1) : ~(d[i] = "_" /\ d[i + 1] = "_")

RECURSIVE int_value(_, _)
int_value(d, acc) ==
    IF d = <<>> THEN acc
    ELSE IF Head(d) = "_" THEN int_value(Tail(d), acc)
    ELSE int_value(Tail(d), 10 * acc + DigitVal(Head(d)))

int(s) ==
    LET t == strip(s)
        signed == t # <<>> /\ t[1] \in {"+", "-"}
        d == IF signed THEN Tail(t) ELSE t
    IN  IF int_literal_ok(d)
        THEN [ok |-> TRUE,
              val |-> IF signed /\ t[1] = "-"
                      THEN 0 - int_value(d, 0) ELSE int_value(d, 0)]
        ELSE [ok |-> FALSE, val |-> 0]

(***************************************************************************)
(* re.match(r"^[\-'a-zA-Z ]+$", name).  Without re.MULTILINE, `$` matches  *)
(* at the end of the string and also just before a newline that is the     *)
(* last character of the string.                                           *)
(***************************************************************************)
NameClass == Lower \cup Upper \cup {"-", "'", " "}

DollarPositions(s) ==
    {Len(s)} \cup (IF s # <<>> /\ s[Len(s)] = "\n" THEN {Len(s) - 1} ELSE {})

re_match_name(s) ==
    \E n \in DollarPositions(s) :
        n >= 1 /\ \A i \in 1..n : s[i] \in NameClass

\* a validator that also lets digits through
validate_name_digits(name, errors) ==
    IF \A i \in 1..Len(name) : name[i] \in NameClass \cup DigitChars \cup {"\n"}
    THEN [name_val |-> name, errors |-> errors]
    ELSE [name_val |-> None, errors |-> Append(errors, "invalid name sequence")]

\* UsersHandler._validate_name(name, errors): the value returned and the
\* error list as the call leaves it
validate_name(name, errors) ==
    IF re_match_name(name)
    THEN [name_val |-> name, errors |-> errors]
    ELSE [name_val |-> None, errors |-> Append(errors, "invalid name sequence")]

(***************************************************************************)
(* The store: table `users` as the sequence of its rows in rowid order,    *)
(* and the AUTOINCREMENT counter SQLite keeps in sqlite_sequence.          *)
(* A statement is the sequence of text fragments the code concatenates.    *)
(***************************************************************************)
CREATE_TABLE == "CREATE TABLE IF NOT EXISTS 'users' (id INTEGER NOT NULL PRIMARY KEY AUTOINCREMENT,name TEXT NOT NULL,created_at INTEGER NOT NULL,updated_at INTEGER NOT NULL);"
INSERT_USER == "INSERT INTO 'users' ('name','created_at', 'updated_at') VALUES (?, ?, ?)"
SELECT_USERS == "SELECT * FROM users"
WHERE_NAME == " WHERE name=?"
WHERE_ID == " WHERE id=?"
ORDER_LIMIT == " ORDER BY created_at DESC LIMIT ? OFFSET ?"

Max(a, b) == IF a >= b THEN a ELSE b
Min(a, b) == IF a <= b THEN a ELSE b

RECURSIVE MaxRowid(_)
MaxRowid(rows) ==
    IF rows = <<>> THEN 0 ELSE Max(Head(rows).id, MaxRowid(Tail(rows)))

\* an INSERT that hands out the number of rows as the id
sql_insert_count(rows, seq, name, created_at, updated_at) ==
    LET id == Max(1, Len(rows))
    IN  [users |-> Append(rows, [id |-> id, name |-> name,
                                 created_at |-> created_at,
                                 updated_at |-> updated_at]),
         sqlite_sequence |-> id,
         has_lastrowid |-> TRUE,
         lastrowid |-> id]

\* INSERT INTO 'users' (name, created_at, updated_at): the id is one more
\* than the largest rowid the table has ever held (AUTOINCREMENT)
sql_insert(rows, seq, name, created_at, updated_at) ==
    LET id == Max(seq, MaxRowid(rows)) + 1
    IN  [users |-> Append(rows, [id |-> id, name |-> name,
                                 created_at |-> created_at,
                                 updated_at |-> updated_at]),
         sqlite_sequence |-> id,
         has_lastrowid |-> TRUE,
         lastrowid |-> id]

\* an ordering by created_at ascending
Before_asc(r1, r2, tie) ==
    \/ r1.created_at < r2.created_at
    \/ /\ r1.created_at = r2.created_at
       /\ IF tie = "rowid_asc" THEN r1.id < r2.id ELSE r1.id > r2.id

\* r1 is delivered before r2 by ORDER BY created_at DESC; rows with equal
\* created_at come in an order SQL leaves open, fixed here by `tie`
Before(r1, r2, tie) ==
    \/ r1.created_at > r2.created_at
    \/ /\ r1.created_at = r2.created_at
       /\ IF tie = "rowid_asc" THEN r1.id < r2.id ELSE r1.id > r2.id

RECURSIVE InsertSorted(_, _, _)
InsertSorted(r, sorted, tie) ==
    IF sorted = <<>> THEN <<r>>
    ELSE IF Before(r, Head(sorted), tie) THEN <<r>> \o sorted
    ELSE <<Head(sorted)>> \o InsertSorted(r, Tail(sorted), tie)

RECURSIVE order_by_created_at_desc(_, _)
order_by_created_at_desc(rows, tie) ==
    IF rows = <<>> THEN <<>>
    ELSE InsertSorted(Head(rows), order_by_created_at_desc(Tail(rows), tie), tie)

\* LIMIT ? OFFSET ? of SQLite: a negative LIMIT is no limit, a negative
\* OFFSET is an offset of zero
sql_limit(rows, limit, offset) ==
    LET off == IF offset < 0 THEN 0 ELSE offset
        last == IF limit < 0 THEN Len(rows) ELSE Min(Len(rows), off + limit)
    IN  SubSeq(rows, off + 1, last)

HasFragment(stmt, f) == \E i \in 1..Len(stmt) : stmt[i] = f

\* a name comparison that ignores the case of "a"/"A"
Fold(s) == [i \in 1..Len(s) |-> IF s[i] = "A" THEN "a" ELSE s[i]]

sql_select_nocase(stmt, args, rows, tie) ==
    LET by_name == HasFragment(stmt, WHERE_NAME)
        by_id == HasFragment(stmt, WHERE_ID)
        matched == SelectSeq(rows, LAMBDA r :
                       /\ by_name => Fold(r.name) = Fold(args[1])
                       /\ by_id => r.id = args[1])
        n == IF by_name \/ by_id THEN 1 ELSE 0
    IN  IF HasFragment(stmt, ORDER_LIMIT)
        THEN sql_limit(order_by_created_at_desc(matched, tie),
                       args[n + 1], args[n + 2])
        ELSE matched

\* cursor.execute(select_stmt, args) for the SELECT statements the handlers
\* build: the rows delivered, in order
sql_select(stmt, args, rows, tie) ==
    LET by_name == HasFragment(stmt, WHERE_NAME)
        by_id == HasFragment(stmt, WHERE_ID)
        matched == SelectSeq(rows, LAMBDA r :
                       /\ by_name => r.name = args[1]
                       /\ by_id => r.id = args[1])
        n == IF by_name \/ by_id THEN 1 ELSE 0
    IN  IF HasFragment(stmt, ORDER_LIMIT)
        THEN sql_limit(order_by_created_at_desc(matched, tie),
                       args[n + 1], args[n + 2])
        ELSE matched

\* {field: row[field] for field in fields}
row_to_user(row) ==
    [id |-> row.id, name |-> row.name,
     created_at |-> row.created_at, updated_at |-> row.updated_at]

rows_to_users(rows) == [i \in 1..Len(rows) |-> row_to_user(rows[i])]

(***************************************************************************)
(* Requests and responses.                                                 *)
(***************************************************************************)
Request(handler, page_num, page_size, name, user_id, time_now) ==
    [handler |-> handler, page_num |-> page_num, page_size |-> page_size,
     name |-> name, user_id |-> user_id, time_now |-> time_now]

\* BaseHandler.write_json(obj, status_code)
write_json(obj, status_code) ==
    [content_type |-> "application/json", status |-> status_code, body |-> obj]

NoResponse == [content_type |-> "", status |-> 0, body |-> ""]

(***************************************************************************)
(* GET /users                                                              *)
(***************************************************************************)
users_select_stmt(name) ==
    <<SELECT_USERS>>
    \o (IF name # None THEN <<WHERE_NAME>> ELSE <<>>)
    \o <<ORDER_LIMIT>>

\* arguments with a clamped limit and an offset counted from page 0
users_select_args_clamped(name, page_num, page_size) ==
    LET limit == Max(page_size, 0)
        offset == Max(page_num - 1, 0) * limit
    IN  IF name # None THEN <<name, limit, offset>> ELSE <<limit, offset>>

users_select_args(name, page_num, page_size) ==
    LET limit == page_size
        offset == (page_num - 1) * page_size
    IN  IF name # None THEN <<name, limit, offset>> ELSE <<limit, offset>>

\* the page_num / page_size argument as the handler parses it
page_argument(values, default) ==
    IF values = <<>> THEN [ok |-> TRUE, val |-> default]
    ELSE int(get_argument(values))

name_filter(values) ==
    IF values = <<>> THEN None ELSE get_argument(values)

UsersHandler_get(page_num_arg, page_size_arg, name_arg) ==
    LET page_num == page_argument(page_num_arg, DEFAULT_PAGE_NUM)
        page_size == page_argument(page_size_arg, DEFAULT_PAGE_SIZE)
        name == name_filter(name_arg)
        select_stmt == users_select_stmt(name)
        args == users_select_args(name, page_num.val, page_size.val)
        results == sql_select(select_stmt, args, users, tie_order)
    IN  /\ request' = Request("UsersHandler.get", page_num_arg, page_size_arg,
                              name_arg, <<>>, 0)
        /\ IF ~page_num.ok
           THEN /\ response' = write_json([result |-> FALSE,
                                           errors |-> "invalid page_num"], 400)
                /\ executed' = <<>>
           ELSE IF ~page_size.ok
           THEN /\ response' = write_json([result |-> FALSE,
                                           errors |-> "invalid page_size"], 400)
                /\ executed' = <<>>
           ELSE /\ response' = write_json([result |-> TRUE,
                                           users |-> rows_to_users(results)], 200)
                /\ executed' = <<[stmt |-> select_stmt, args |-> args]>>
        /\ UNCHANGED <<users, sqlite_sequence, tie_order, posted, probe>>

(***************************************************************************)
(* POST /users                                                             *)
(***************************************************************************)
\* the row stored with an updated_at one microsecond after created_at
insert_values_skewed(name_val, time_now) ==
    [name |-> name_val, created_at |-> time_now, updated_at |-> time_now + 1]

\* (name_val, time_now, time_now), the values bound to the INSERT
insert_values(name_val, time_now) ==
    [name |-> name_val, created_at |-> time_now, updated_at |-> time_now]

\* dict(id=cursor.lastrowid, name=name_val, created_at=..., updated_at=...)
post_user(cursor, name_val, time_now) ==
    [id |-> cursor.lastrowid, name |-> name_val,
     created_at |-> time_now, updated_at |-> time_now]

\* a POST that inserts before it looks at the validation errors
post_writes_on_error(errors) == TRUE

\* whether the handler goes on to the INSERT: only with no validation error
post_writes(errors) == Len(errors) = 0

UsersHandler_post(name_arg, time_now) ==
    /\ request' = Request("UsersHandler.post", <<>>, <<>>, name_arg, <<>>, time_now)
    /\ UNCHANGED <<tie_order, probe>>
    /\ IF name_arg = <<>>
       THEN \* get_argument("name") raises MissingArgumentError, an HTTPError
            \* of status 400, before anything else runs
            /\ response' = [content_type |-> "text/html", status |-> 400,
                            body |-> "MissingArgumentError"]
            /\ executed' = <<>>
            /\ UNCHANGED <<users, sqlite_sequence, posted>>
       ELSE LET name == get_argument(name_arg)
                v == validate_name(name, <<>>)
                values == insert_values(v.name_val, time_now)
                cursor == sql_insert(users, sqlite_sequence, values.name,
                                     values.created_at, values.updated_at)
                user == post_user(cursor, v.name_val, time_now)
            IN  /\ post_writes(v.errors) => Len(users) < MaxUsers
                /\ IF post_writes(v.errors)
                   THEN /\ users' = cursor.users
                        /\ sqlite_sequence' = cursor.sqlite_sequence
                        /\ executed' = <<[stmt |-> <<INSERT_USER>>,
                                          args |-> <<values.name, values.created_at,
                                                     values.updated_at>>]>>
                   ELSE /\ executed' = <<>>
                        /\ UNCHANGED <<users, sqlite_sequence>>
                /\ IF Len(v.errors) > 0
                   THEN /\ response' = write_json([result |-> FALSE,
                                                   errors |-> v.errors], 400)
                        /\ UNCHANGED posted
                   ELSE IF ~cursor.has_lastrowid
                   THEN /\ response' = write_json(
                               [result |-> FALSE,
                                errors |-> <<"Error while adding user to db">>], 500)
                        /\ UNCHANGED posted
                   ELSE /\ response' = write_json([result |-> TRUE,
                                                   user |-> user], 200)
                        /\ posted' = posted \cup {user}

(***************************************************************************)
(* GET /users/ping                                                         *)
(***************************************************************************)
PingHandler_get ==
    /\ request' = Request("PingHandler.get", <<>>, <<>>, <<>>, <<>>, 0)
    /\ response' = [content_type |-> "text/html", status |-> 200, body |-> "pong!"]
    /\ executed' = <<>>
    /\ UNCHANGED <<users, sqlite_sequence, tie_order, posted, probe>>

(***************************************************************************)
(* GET /users/{id}; user_id is the path segment the route captures         *)
(***************************************************************************)
\* a lookup that selects every row
user_by_id_stmt_all == <<SELECT_USERS>>

user_by_id_stmt == <<SELECT_USERS, WHERE_ID>>

\* a lookup that stamps updated_at on the row it fetched
UserByIdHandler_get_touching(user_id) ==
    LET id == int(user_id)
    IN  /\ request' = Request("UserByIdHandler.get", <<>>, <<>>, <<>>, user_id, 0)
        /\ response' = write_json([result |-> id.ok], IF id.ok THEN 200 ELSE 400)
        /\ executed' = <<>>
        /\ users' = [i \in 1..Len(users) |->
                        IF id.ok /\ users[i].id = id.val
                        THEN [users[i] EXCEPT !.updated_at = @ + 1]
                        ELSE users[i]]
        /\ UNCHANGED <<sqlite_sequence, tie_order, posted, probe>>

UserByIdHandler_get(user_id) ==
    LET id == int(user_id)
        select_stmt == user_by_id_stmt
        args == <<id.val>>
        user_results == sql_select(select_stmt, args, users, tie_order)
    IN  /\ request' = Request("UserByIdHandler.get", <<>>, <<>>, <<>>, user_id, 0)
        /\ IF ~id.ok
           THEN /\ response' = write_json([result |-> FALSE,
                                           errors |-> "invalid user_id"], 400)
                /\ executed' = <<>>
           ELSE /\ response' = write_json(
                       [result |-> TRUE,
                        userById |-> rows_to_users(user_results)], 200)
                /\ executed' = <<[stmt |-> select_stmt, args |-> args]>>
        /\ UNCHANGED <<users, sqlite_sequence, tie_order, posted, probe>>

(***************************************************************************)
(* App.__init__ / App.init_db: the process (re)starts on the same          *)
(* users.db; CREATE TABLE IF NOT EXISTS leaves an existing table alone.    *)
(***************************************************************************)
init_db ==
    /\ request' = Request("App.init_db", <<>>, <<>>, <<>>, <<>>, 0)
    /\ response' = NoResponse
    /\ executed' = <<[stmt |-> <<CREATE_TABLE>>, args |-> <<>>]>>
    /\ UNCHANGED <<users, sqlite_sequence, tie_order, posted, probe>>

(***************************************************************************)
(* Inputs.                                                                 *)
(***************************************************************************)
PageNumArgs ==
    { <<>>, << <<"2">> >>, << <<"0">> >>, << <<"x">> >> }

PageSizeArgs ==
    { <<>>, << <<"1">> >>, << <<"2">> >>, << <<"0">> >>, << <<"-", "1">> >>,
      << <<"1", "x">> >> }

NameFilterArgs ==
    { <<>>, << <<"A">> >>, << <<" ", "a">> >> }

PostNameArgs ==
    { <<>>, << <<"a">> >>, << <<"A">> >>, << <<"a", "\n">> >>, << <<" ">> >>,
      << <<"a", "1">> >>, << <<"a", "\n", "b">> >>, << <<"A", "\\x01">> >>,
      << <<"a", "1">>, <<"A">> >> }

UserIds ==
    { <<"1">>, <<"2">>, <<"9">>, <<"x">>, <<" ", "1">> }

\* int(time.time() * 1e6): the wall clock may repeat a reading or step back
Times == {1, 2}

NoProbe == [stage |-> "off", name |-> <<>>, name_val |-> None, errors |-> <<>>]
NoMemory == [set |-> FALSE, request |-> Request("", <<>>, <<>>, <<>>, <<>>, 0),
             response |-> NoResponse]

(***************************************************************************)
(* The service: first start on an empty users.db, then requests, each      *)
(* handler running to completion (no handler yields).                      *)
(***************************************************************************)
Init ==
    /\ users = <<>>
    /\ sqlite_sequence = 0
    /\ tie_order \in {"rowid_asc", "rowid_desc"}
    /\ request = Request("App.init_db", <<>>, <<>>, <<>>, <<>>, 0)
    /\ response = NoResponse
    /\ executed = <<[stmt |-> <<CREATE_TABLE>>, args |-> <<>>]>>
    /\ posted = {}
    /\ remembered = NoMemory
    /\ probe = NoProbe

Next ==
    \/ \E pn \in PageNumArgs, ps \in PageSizeArgs, nm \in NameFilterArgs :
          UsersHandler_get(pn, ps, nm) /\ UNCHANGED remembered
    \/ \E nm \in PostNameArgs, t \in Times :
          UsersHandler_post(nm, t) /\ UNCHANGED remembered
    \/ \E id \in UserIds : UserByIdHandler_get(id) /\ UNCHANGED remembered
    \/ PingHandler_get /\ UNCHANGED remembered
    \/ init_db /\ UNCHANGED remembered

Spec == Init /\ [][Next]_vars

(***************************************************************************)
(* The service with the requests remembered: `remembered` keeps one        *)
(* earlier GET /users request and its response, chosen freely, until a     *)
(* POST completes.                                                         *)
(***************************************************************************)
RepeatPageArgs == { <<>>, << <<"1">> >>, << <<"x">> >> }
RepeatNameArgs == { <<>>, << <<"a">> >> }
RepeatPostArgs == { << <<"a">> >>, << <<"a", "1">> >> }
RepeatUserIds == { <<"1">>, <<"x">> }

Remember ==
    IF request'.handler = "UsersHandler.post" THEN remembered' = NoMemory
    ELSE IF request'.handler = "UsersHandler.get"
    THEN remembered' \in {remembered,
                          [set |-> TRUE, request |-> request',
                           response |-> response']}
    ELSE remembered' = remembered

NextRepeat ==
    \/ \E pn \in RepeatPageArgs, ps \in RepeatPageArgs, nm \in RepeatNameArgs :
          UsersHandler_get(pn, ps, nm) /\ Remember
    \/ \E nm \in RepeatPostArgs, t \in Times :
          UsersHandler_post(nm, t) /\ Remember
    \/ \E id \in RepeatUserIds : UserByIdHandler_get(id) /\ Remember
    \/ PingHandler_get /\ Remember
    \/ init_db /\ Remember

SpecRepeat == Init /\ [][NextRepeat]_vars

(***************************************************************************)
(* _validate_name on its own: every string of at most MaxNameLen           *)
(* characters of ProbeChars is handed to it once.                          *)
(***************************************************************************)
ProbeChars == {"a", "Z", " ", "-", "'", "1", "\n"}

ProbeStrings == UNION {[1..n -> ProbeChars] : n \in 0..MaxNameLen}

InitValidate ==
    /\ users = <<>>
    /\ sqlite_sequence = 0
    /\ tie_order = "rowid_asc"
    /\ request = Request("App.init_db", <<>>, <<>>, <<>>, <<>>, 0)
    /\ response = NoResponse
    /\ executed = <<[stmt |-> <<CREATE_TABLE>>, args |-> <<>>]>>
    /\ posted = {}
    /\ remembered = NoMemory
    /\ \E s \in ProbeStrings :
          probe = [stage |-> "in", name |-> s, name_val |-> None, errors |-> <<>>]

ValidateProbe ==
    /\ probe.stage = "in"
    /\ LET v == validate_name(probe.name, <<>>)
       IN  probe' = [stage |-> "out", name |-> probe.name,
                     name_val |-> v.name_val, errors |-> v.errors]
    /\ UNCHANGED <<users, sqlite_sequence, tie_order, request, response,
                   executed, posted, remembered>>

NextValidate == ValidateProbe

SpecValidate == InitValidate /\ [][NextValidate]_vars

(***************************************************************************)
(* Properties.                                                             *)
(***************************************************************************)
IsList == request.handler = "UsersHandler.get"
IsPost == request.handler = "UsersHandler.post"
IsById == request.handler = "UserByIdHandler.get"

\* the value of a page argument as sent (the last value, absent -> default)
SentInt(values, default) ==
    IF values = <<>> THEN [ok |-> TRUE, val |-> default]
    ELSE int(values[Len(values)])

SentPageNum == SentInt(request.page_num, 1)
SentPageSize == SentInt(request.page_size, 10)

\* the strings the name pattern [A-Za-z \-']+ describes
PatternChars == Lower \cup Upper \cup {" ", "-", "'"}
MatchesPattern(s) == Len(s) >= 1 /\ \A i \in 1..Len(s) : s[i] \in PatternChars

\* n as the handler receives it: control characters replaced by spaces,
\* leading and trailing whitespace removed
Received(n) ==
    LET spaced == [i \in 1..Len(n) |-> IF n[i] = "\\x01" THEN " " ELSE n[i]]
        inner == { i \in 1..Len(n) : spaced[i] \notin {" ", "\t", "\n", "\r", "\f"} }
    IN  IF inner = {} THEN <<>>
        ELSE LET first == CHOOSE i \in inner : \A j \in inner : i <= j
                 last == CHOOSE i \in inner : \A j \in inner : i >= j
             IN  SubSeq(spaced, first, last)

\* the rankings of `rows` by created_at descending
Rankings(rows) ==
    { [i \in 1..Len(rows) |-> rows[f[i]]] : f \in
        { g \in Permutations(1..Len(rows)) :
            \A i, j \in 1..Len(rows) :
                i < j => rows[g[i]].created_at >= rows[g[j]].created_at } }

\* the records of ranking R at the 0-based positions [(p-1)*k, p*k)
PageOf(R, p, k) ==
    LET P == { i \in 1..Len(R) : (p - 1) * k < i /\ i <= p * k }
    IN  [j \in 1..Cardinality(P) |-> R[(p - 1) * k + j]]

\* C1: GET /users/{id} with an id a 200 POST returned answers 200 with
\* exactly the record that POST returned (created_at = updated_at); with an
\* integer id no POST returned it answers 200 with an empty userById list.
RoundTrip ==
    (IsById /\ int(request.user_id).ok) =>
        LET made == { u \in posted : u.id = int(request.user_id).val }
        IN  /\ response.status = 200
            /\ response.body.result = TRUE
            /\ IF made = {}
               THEN response.body.userById = <<>>
               ELSE \A u \in made :
                       /\ response.body.userById = <<u>>
                       /\ u.created_at = u.updated_at

RoundTripWitness ==
    /\ IsById
    /\ request.user_id = <<" ", "1">>
    /\ response.status = 200
    /\ Len(response.body.userById) = 1
    /\ Len(users) = 2

\* C2 as stated: GET /users without name filter, page_num = p and
\* page_size = k (defaults 1 and 10), returns exactly the records at
\* positions [(p-1)*k, p*k) of the records ranked by created_at descending,
\* for every integer p and k.
PaginationAnyPage ==
    (IsList /\ request.name = <<>> /\ SentPageNum.ok /\ SentPageSize.ok) =>
        /\ response.status = 200
        /\ \E R \in Rankings(users) :
              response.body.users
                  = rows_to_users(PageOf(R, SentPageNum.val, SentPageSize.val))

\* C2 amended: the same, for page_num >= 1 and page_size >= 0.
Pagination ==
    (/\ IsList /\ request.name = <<>> /\ SentPageNum.ok /\ SentPageSize.ok
     /\ SentPageNum.val >= 1 /\ SentPageSize.val >= 0) =>
        /\ response.status = 200
        /\ \E R \in Rankings(users) :
              response.body.users
                  = rows_to_users(PageOf(R, SentPageNum.val, SentPageSize.val))

PaginationWitness ==
    /\ IsList /\ request.name = <<>>
    /\ request.page_num = << <<"2">> >> /\ request.page_size = << <<"1">> >>
    /\ response.status = 200
    /\ Len(response.body.users) = 1
    /\ Len(users) = 2 /\ users[1].created_at # users[2].created_at

\* C3: _validate_name returns the string unchanged and records no error
\* exactly for the non-empty strings of letters, spaces, hyphens and
\* apostrophes; for every other string it returns no name and records
\* "invalid name sequence".
ValidateNameExact ==
    probe.stage = "out" =>
        IF MatchesPattern(probe.name)
        THEN probe.name_val = probe.name /\ probe.errors = <<>>
        ELSE probe.name_val = None
             /\ probe.errors = <<"invalid name sequence">>

\* C4: every record of the users table has a name matching [A-Za-z \-']+.
StoredNamesValid ==
    \A i \in 1..Len(users) : MatchesPattern(users[i].name)

StoredNamesValidWitness ==
    /\ IsPost
    /\ request.name = << <<"a", "\n">> >>
    /\ response.status = 200
    /\ users[Len(users)].name = <<"a">>

\* no two rows share an id
IdsDistinct ==
    \A i, j \in 1..Len(users) : i # j => users[i].id # users[j].id

PostAssignsFreshId ==
    (request'.handler = "UsersHandler.post" /\ response'.status = 200) =>
        LET id == response'.body.user.id
        IN  /\ Len(users') = Len(users) + 1
            /\ users'[Len(users')].id = id
            /\ \A i \in 1..Len(users) : users[i].id < id
            /\ \A u \in posted : u.id < id
            /\ id > sqlite_sequence

IdsKept ==
    \A i \in 1..Len(users) : Len(users') >= i /\ users'[i].id = users[i].id

\* C5: ids are distinct; each POST that answers 200 reports the id of the
\* row it inserted, an id greater than every id assigned before; the ids
\* of the rows already stored never change.
IdsUniqueIncreasing ==
    []IdsDistinct /\ [][PostAssignsFreshId /\ IdsKept]_vars

IdsWitness ==
    /\ IsPost /\ response.status = 200
    /\ Len(users) = 2
    /\ response.body.user.id = 2

\* a POST whose name, as the handler receives it, fails the name pattern
PostFailsValidation(req) ==
    /\ req.handler = "UsersHandler.post"
    /\ req.name # <<>>
    /\ ~MatchesPattern(Received(req.name[Len(req.name)]))

\* C6: a POST whose name fails validation answers 400 with
\* {result: false, errors: ["invalid name sequence"]} and leaves the store
\* as it was.
InvalidPostWritesNothing ==
    [][PostFailsValidation(request') =>
          /\ response'.status = 400
          /\ response'.body = [result |-> FALSE,
                               errors |-> <<"invalid name sequence">>]
          /\ users' = users
          /\ sqlite_sequence' = sqlite_sequence
          /\ executed' = <<>>]_vars

InvalidPostWitness ==
    /\ PostFailsValidation(request)
    /\ response.status = 400
    /\ Len(users) = 1

\* C7: GET /users answers 400 "invalid page_num" when page_num does not
\* parse, 400 "invalid page_size" when page_num parses and page_size does
\* not, GET /users/{id} answers 400 "invalid user_id" when the segment does
\* not parse, each without executing a statement; page_num and page_size
\* that parse are answered 200 and queried with limit = page_size and
\* offset = (page_num - 1) * page_size.
IntegerParameters ==
    /\ (IsList /\ ~SentPageNum.ok) =>
          /\ response.status = 400
          /\ response.body = [result |-> FALSE, errors |-> "invalid page_num"]
          /\ executed = <<>>
    /\ (IsList /\ SentPageNum.ok /\ ~SentPageSize.ok) =>
          /\ response.status = 400
          /\ response.body = [result |-> FALSE, errors |-> "invalid page_size"]
          /\ executed = <<>>
    /\ (IsById /\ ~int(request.user_id).ok) =>
          /\ response.status = 400
          /\ response.body = [result |-> FALSE, errors |-> "invalid user_id"]
          /\ executed = <<>>
    /\ (IsList /\ SentPageNum.ok /\ SentPageSize.ok) =>
          /\ response.status = 200
          /\ Len(executed) = 1
          /\ LET a == executed[1].args
             IN  /\ a[Len(a) - 1] = SentPageSize.val
                 /\ a[Len(a)] = (SentPageNum.val - 1) * SentPageSize.val

IntegerParametersWitness ==
    /\ IsList
    /\ request.page_num = << <<"0">> >>
    /\ request.page_size = << <<"-", "1">> >>
    /\ response.status = 200
    /\ executed[1].args = <<0 - 1, 1>>

\* every record has created_at = updated_at
TimestampsEqual ==
    \A i \in 1..Len(users) : users[i].created_at = users[i].updated_at

RecordsKept ==
    \A i \in 1..Len(users) :
        /\ Len(users') >= i
        /\ users'[i].name = users[i].name
        /\ users'[i].created_at = users[i].created_at
        /\ users'[i].updated_at = users[i].updated_at

\* C8: every record has created_at = updated_at, and no request changes
\* the name, created_at or updated_at of a record already inserted.
RecordsImmutable ==
    []TimestampsEqual /\ [][RecordsKept]_vars

RecordsImmutableWitness ==
    /\ IsPost /\ response.status = 200
    /\ Len(users) = 2
    /\ users[1].name # users[2].name
    /\ users[1].created_at > users[2].created_at

\* the rows named n, in table order
Named(n) == SelectSeq(users, LAMBDA r : r.name = n)

ListByName == IsList /\ request.name # <<>> /\ SentPageNum.ok /\ SentPageSize.ok

\* what GET /users?name=n answers when n is the value to match: only
\* records named n, ordered by created_at descending, the whole page of
\* them, by a statement that binds n as its first argument
FilterBy(n) ==
    /\ response.status = 200
    /\ \A i \in 1..Len(response.body.users) : response.body.users[i].name = n
    /\ \A i, j \in 1..Len(response.body.users) :
          i < j => /\ response.body.users[i].created_at
                        >= response.body.users[j].created_at
                   /\ response.body.users[i].id # response.body.users[j].id
    /\ \A i \in 1..Len(response.body.users) :
          \E k \in 1..Len(users) : response.body.users[i] = row_to_user(users[k])
    /\ (SentPageNum.val >= 1 /\ SentPageSize.val >= 0) =>
          \E R \in Rankings(Named(n)) :
              response.body.users
                  = rows_to_users(PageOf(R, SentPageNum.val, SentPageSize.val))
    /\ executed = <<[stmt |-> <<"SELECT * FROM users", " WHERE name=?",
                               " ORDER BY created_at DESC LIMIT ? OFFSET ?">>,
                     args |-> <<n, SentPageSize.val,
                                (SentPageNum.val - 1) * SentPageSize.val>>]>>

\* C9 as stated: GET /users?name=n returns only records whose name is
\* exactly n, the value sent.
FilterExactAsSent ==
    ListByName => FilterBy(request.name[Len(request.name)])

\* C9 amended: the value matched is n as the handler receives it, that is
\* with its leading and trailing whitespace removed.
FilterExact ==
    ListByName => FilterBy(Received(request.name[Len(request.name)]))

FilterExactWitness ==
    /\ ListByName
    /\ request.name = << <<" ", "a">> >>
    /\ request.page_size = <<>>
    /\ Len(response.body.users) = 1
    /\ Len(users) = 2
    /\ \E i \in 1..2 : users[i].name = <<"A">>

\* the three GET handlers
IsReadHandler(h) ==
    h \in {"UsersHandler.get", "UserByIdHandler.get", "PingHandler.get"}

ReadKeepsStore ==
    IsReadHandler(request'.handler) =>
        users' = users /\ sqlite_sequence' = sqlite_sequence

RepeatedListSame ==
    (/\ request'.handler = "UsersHandler.get"
     /\ remembered.set
     /\ remembered.request = request') =>
        response' = remembered.response

\* C10: GET /users, GET /users/{id} and GET /users/ping leave the users
\* table unchanged, and a GET /users repeated with the parameters of an
\* earlier one, no POST completed in between, gets the response the
\* earlier one got.
ReadsPure == [][ReadKeepsStore /\ RepeatedListSame]_vars

ReadsPureWitness ==
    /\ IsList
    /\ remembered.set
    /\ remembered.request = request
    /\ remembered.response = response
    /\ response.status = 200
    /\ Len(response.body.users) = 2
    /\ request.name = << <<"a">> >>

====
